---- MODULE Spec2Model ----
(***************************************************************************)
(* Model of src/fiveloops.c: the five-loop blocked DGEMM  C := A*B + C     *)
(* with packing of A and B and a 4x4 register microkernel.                 *)
(*                                                                         *)
(* Memory is modelled as maps from element offsets to values.  Matrix      *)
(* elements are small integers, on which double arithmetic and the fused   *)
(* multiply-add are exact.                                                 *)
(*                                                                         *)
(* An access outside an allocation is undefined behaviour.  The model      *)
(* raises the flag ub in the step of the access.  What the build reads     *)
(* there is whatever lies next to the buffer, so such a read yields the    *)
(* indeterminate value Indet, which stands for every double and which      *)
(* every arithmetic operation propagates.  A store outside the allocation  *)
(* of C lands in whatever is allocated there, which may be A, B, At or Bt: *)
(* after such a store every element of these four buffers is               *)
(* indeterminate, and the stored value cannot be read back.  Once ub is    *)
(* raised the process may also be killed (SIGSEGV at the access, SIGABRT   *)
(* in a later heap check): the action Crash.                               *)
(*                                                                         *)
(* _mm_malloc may return NULL and neither fourloops nor threeloops tests   *)
(* its result: the first store of the following packing call then goes     *)
(* through a null pointer and kills the process inside that call.          *)
(***************************************************************************)
EXTENDS Integers, Sequences, FiniteSets, TLC

(* ---------------- blocking constants and bounds ---------------- *)

\* register tile: the microkernel holds 4 accumulators of 4 doubles
MR == 4
NR == 4
\* lanes of one __m256d vector and number of accumulator registers
VecLen == 4
NumAcc == 4

\* MC and NC are multiples of the register tile, KC is free
MCPanels == 2
NCPanels == 2
MC == MR * MCPanels
NC == NR * NCPanels
KC == 2

MaxM == 9
MaxN == 9
MaxK == 3
MaxCalls == 2

\* variant of min that never clips to the blocking constant
min_noclip(a, b) == b

min(a, b) == IF a < b THEN a ELSE b
Max0(a) == IF a < 0 THEN 0 ELSE a
Max1(a) == IF a < 1 THEN 1 ELSE a
CeilDiv(a, b) == IF a <= 0 THEN 0 ELSE (a + b - 1) \div b

\* dimensions tried: non-positive, one, and the multiples of the register
\* tile with and without a remainder of one
DimVals(mx, r) == { d \in -1..mx : d <= 1 \/ d % r <= 1 }

Layouts == {"col", "row", "pad"}
\* padding of the embedding buffer: a whole register tile fits after the view
Pad == MR - 1

(* ---------------- memory ---------------- *)

Wr(mem, a, v) == [x \in (DOMAIN mem) \cup {a} |-> IF x = a THEN v ELSE mem[x]]

\* strides and allocation size of an R x Q matrix in a layout
RowStride(lay, R, Q) == IF lay = "row" THEN Max1(Q) ELSE 1
ColStride(lay, R, Q) == IF lay = "row" THEN 1
                        ELSE IF lay = "col" THEN Max1(R) ELSE Max0(R) + Pad
AllocSize(lay, R, Q) == IF lay = "pad" THEN (Max0(R) + Pad) * (Max0(Q) + Pad)
                        ELSE Max0(R) * Max0(Q)

VARIABLES
  M, N, K,            \* arguments m, n, k of fiveloops
  layA, layB, layC,   \* storage layout of the three matrices
  Amem, Bmem, Cmem,   \* the callers' buffers
  Cinit,              \* contents of C before the first call
  crashed,            \* the process has been killed after undefined behaviour
  pc, calls,
  j5, f4, p4, f3, i3, f2, j2, f1, i1,   \* loop counters and call frames
  Bt, At,             \* packed buffers
  BtLive, AtLive,     \* number of Bt and At buffers allocated and not freed
  BtW, AtW,           \* offsets written by the latest packing call
  Bsrc, Asrc,         \* source offsets read by the latest packing call
  kr,                 \* offsets touched by the latest microkernel call
  Cpre,               \* contents of C at entry of the latest microkernel call
  stored,             \* offsets of C stored to so far
  cnt,                \* event counters
  ub                  \* undefined behaviour has happened

vars == << M, N, K, layA, layB, layC, Amem, Bmem, Cmem, Cinit, crashed, pc, calls,
           j5, f4, p4, f3, i3, f2, j2, f1, i1, Bt, At, BtLive, AtLive,
           BtW, AtW, Bsrc, Asrc, kr, Cpre, stored, cnt, ub >>

rsA == RowStride(layA, M, K)
csA == ColStride(layA, M, K)
rsB == RowStride(layB, K, N)
csB == ColStride(layB, K, N)
rsC == RowStride(layC, M, N)
csC == ColStride(layC, M, N)
AAlloc == AllocSize(layA, M, K)
BAlloc == AllocSize(layB, K, N)
CAlloc == AllocSize(layC, M, N)

\* the element access macros alpha, beta, gamma, relative to a base pointer
alpha(A, i, j) == A + i * rsA + j * csA
beta(B, i, j)  == B + i * rsB + j * csB
gamma(C, i, j) == C + i * rsC + j * csC

\* the indeterminate value; the elements of A, B and C are not negative
Indet == -1

\* a read of a buffer: indeterminate outside the allocation, and in a packed
\* buffer where nothing has been written
RdBuf(mem, a) == IF a \in DOMAIN mem THEN mem[a] ELSE Indet

\* a store through a pointer into C: inside the allocation it changes C,
\* outside it lands in another object
WrC(mem, a, v) == IF a \in DOMAIN mem THEN [mem EXCEPT ![a] = v] ELSE mem

\* a buffer that a store outside the allocation of C may have hit
Clobber(mem) == [a \in DOMAIN mem |-> Indet]

\* _mm256_fmadd_pd on one lane: a * b + c
fmadd(a, b, c) ==
  IF a = Indet \/ b = Indet \/ c = Indet THEN Indet ELSE a * b + c

(* ---------------- packing ---------------- *)

\* A packing routine is modelled by the list of its stores *Xt++ = ..., in
\* program order; an entry is the source offset copied, or Zero for 0.0.
Zero == -1

\* variant of packB_KCxNR that copies NR columns whatever the panel width
packB_KCxNR_nopad(k, n, B) ==
  [t \in 1..(k * NR) |-> beta(B, (t - 1) \div NR, (t - 1) % NR)]

packB_KCxNR(k, n, B) ==
  IF n = NR
  THEN [t \in 1..(k * NR) |-> beta(B, (t - 1) \div NR, (t - 1) % NR)]
  ELSE [t \in 1..(k * NR) |->
          IF (t - 1) % NR < n THEN beta(B, (t - 1) \div NR, (t - 1) % NR)
                              ELSE Zero]

\* list of << offset in Bt, source >> written by packB_KCxNC
RECURSIVE packB_loop(_, _, _, _, _)
packB_loop(j, k, n, B, ptr) ==
  IF j < n
  THEN LET jb == min(NR, n - j)
           w  == packB_KCxNR(k, jb, beta(B, 0, j))
       IN  [t \in 1..Len(w) |-> << ptr + t - 1, w[t] >>]
             \o packB_loop(j + NR, k, n, B, ptr + k * jb)
  ELSE << >>

packB_KCxNC(k, n, B) == packB_loop(0, k, n, B, 0)

packA_MRxKC(m, k, A) ==
  LET m1 == MR   \* the condition "m = MR" assigns MR to m and tests it
  IN IF m1 # 0
     THEN [t \in 1..(k * MR) |-> alpha(A, (t - 1) % MR, (t - 1) \div MR)]
     ELSE [t \in 1..(k * m1) |-> alpha(A, (t - 1) % m1, (t - 1) \div m1)]
            \o [t \in 1..(MR - m1) |-> Zero]

RECURSIVE packA_loop(_, _, _, _, _)
packA_loop(i, m, k, A, ptr) ==
  IF i < m
  THEN LET ib == min(MR, m - i)
           w  == packA_MRxKC(ib, k, alpha(A, i, 0))
       IN  [t \in 1..Len(w) |-> << ptr + t - 1, w[t] >>]
             \o packA_loop(i + MR, m, k, A, ptr + ib * k)
  ELSE << >>

packA_MCxKC(m, k, A) == packA_loop(0, m, k, A, 0)

\* the stores of a write list applied in order to a packed buffer
RECURSIVE ApplyWrites(_, _, _, _)
ApplyWrites(buf, w, src, t) ==
  IF t > Len(w) THEN buf
  ELSE ApplyWrites(Wr(buf, w[t][1],
                      IF w[t][2] = Zero THEN 0 ELSE RdBuf(src, w[t][2])),
                   w, src, t + 1)

WriteOffsets(w) == { w[t][1] : t \in 1..Len(w) }
SourceOffsets(w) == { w[t][2] : t \in 1..Len(w) } \ {Zero}

(* ---------------- microkernel ---------------- *)

\* sum of the k fused multiply-adds into lane l of accumulator j
RECURSIVE fmaLoop(_, _, _, _, _, _, _)
fmaLoop(p, k, mpA, mpB, l, j, acc) ==
  IF p < k
  THEN fmaLoop(p + 1, k, mpA + MR, mpB + NR, l, j,
               fmadd(RdBuf(At, mpA + l), RdBuf(Bt, mpB + j), acc))
  ELSE acc

\* _mm256_storeu_pd: VecLen contiguous doubles
RECURSIVE storeu(_, _, _, _)
storeu(mem, a, vec, l) ==
  IF l < VecLen THEN storeu(WrC(mem, a + l, vec[l]), a, vec, l + 1) ELSE mem

RECURSIVE storeAll(_, _, _, _)
storeAll(mem, C, acc, j) ==
  IF j < NumAcc THEN storeAll(storeu(mem, gamma(C, 0, j), acc[j], 0), C, acc, j + 1)
  ELSE mem

dgemm_ukernel_packed(k, mpA, mpB, C) ==
  LET loaded == [j \in 0..(NumAcc - 1) |->
                   [l \in 0..(VecLen - 1) |-> RdBuf(Cmem, gamma(C, 0, j) + l)]]
      acc    == [j \in 0..(NumAcc - 1) |->
                   [l \in 0..(VecLen - 1) |->
                      fmaLoop(0, k, mpA, mpB, l, j, loaded[j][l])]]
  IN storeAll(Cmem, C, acc, 0)

\* offsets of C, At and Bt touched by one microkernel call
ukernelC(C) == { gamma(C, 0, j) + l : j \in 0..(NumAcc - 1), l \in 0..(VecLen - 1) }
ukernelA(k, mpA) == { mpA + p * MR + l : p \in 0..(k - 1), l \in 0..(VecLen - 1) }
ukernelB(k, mpB) == { mpB + p * NR + j : p \in 0..(k - 1), j \in 0..(NumAcc - 1) }

(* ---------------- the program ---------------- *)

\* capacities of the packed buffers, in doubles
BtCap == KC * NC
AtCap == MC * KC

\* _mm_malloc and _mm_free, on the number of live buffers of a stage.
\* _mm_malloc returns a new buffer or, when the allocator is exhausted, NULL:
\* then nothing is allocated.  The callers do not test the result, so inside
\* a stage a live count of 0 means that the stage holds a null pointer.
mm_malloc(live) == {live + 1, live}

\* _mm_free of a null pointer does nothing
mm_free(live) == IF live = 0 THEN live ELSE live - 1

\* the loop conditions of the five loops
fiveloops_cond == j5 < N
fourloops_cond == p4 < f4.k
\* variant of the M loop that runs once more when i reaches m
threeloops_cond_le == i3 <= f3.m

threeloops_cond == i3 < f3.m
twoloops_cond == j2 < f2.n
oneloop_cond == i1 < f1.m

NoFrame == [m |-> 0, n |-> 0, k |-> 0, A |-> 0, B |-> 0, C |-> 0]
NoCnt == [btAlloc |-> 0, btFree |-> 0, atAlloc |-> 0, atFree |-> 0,
          packB |-> 0, packA |-> 0, ukernel |-> 0,
          four |-> 0, three |-> 0, two |-> 0,
          packB4 |-> 0, three4 |-> 0, packA3 |-> 0, two3 |-> 0]
NoKr == [k |-> 0, mpA |-> 0, mpB |-> 0, C |-> 0, A |-> {}, B |-> {}]

Init ==
  /\ M \in DimVals(MaxM, MR)
  /\ N \in DimVals(MaxN, NR)
  /\ K \in -1..MaxK
  /\ layA \in Layouts /\ layB \in Layouts /\ layC \in Layouts
  /\ crashed = FALSE
  /\ Amem = [a \in 0..(AAlloc - 1) |-> 1 + (a % 3)]
  /\ Bmem = [a \in 0..(BAlloc - 1) |-> 1 + ((2 * a) % 5)]
  /\ Cmem = [a \in 0..(CAlloc - 1) |-> 1 + (a % 2)]
  /\ Cinit = Cmem /\ Cpre = Cmem
  /\ pc = "five" /\ calls = 1
  /\ j5 = 0 /\ p4 = 0 /\ i3 = 0 /\ j2 = 0 /\ i1 = 0
  /\ f4 = NoFrame /\ f3 = NoFrame /\ f2 = NoFrame /\ f1 = NoFrame
  /\ Bt = << >> /\ At = << >> /\ BtLive = 0 /\ AtLive = 0
  /\ BtW = {} /\ AtW = {} /\ Bsrc = {} /\ Asrc = {}
  /\ kr = NoKr /\ stored = {} /\ cnt = NoCnt /\ ub = FALSE

\* fiveloops, loop body: call fourloops on the next NC columns
FiveIter ==
  /\ ~crashed
  /\ pc = "five" /\ fiveloops_cond
  /\ LET jb == min(NC, N - j5)
     IN f4' = [m |-> M, n |-> jb, k |-> K, A |-> 0,
               B |-> beta(0, 0, j5), C |-> gamma(0, 0, j5)]
  /\ cnt' = [cnt EXCEPT !.four = @ + 1]
  /\ pc' = "four_entry"
  /\ UNCHANGED << M, N, K, layA, layB, layC, Amem, Bmem, Cmem, Cinit, crashed,
                  calls, j5, p4, f3, i3, f2, j2, f1, i1, Bt, At, BtLive,
                  AtLive, BtW, AtW, Bsrc, Asrc, kr, Cpre, stored, ub >>

\* fiveloops, loop exit: return to the caller
FiveReturn ==
  /\ ~crashed
  /\ pc = "five" /\ ~fiveloops_cond
  /\ pc' = "done"
  /\ UNCHANGED << M, N, K, layA, layB, layC, Amem, Bmem, Cmem, Cinit, crashed,
                  calls, j5, f4, p4, f3, i3, f2, j2, f1, i1, Bt, At, BtLive,
                  AtLive, BtW, AtW, Bsrc, Asrc, kr, Cpre, stored, cnt, ub >>

\* fourloops, entry: Bt = _mm_malloc(KC*NC*sizeof(double), 64)
FourAlloc ==
  /\ ~crashed
  /\ pc = "four_entry"
  /\ Bt' = << >> /\ BtW' = {} /\ Bsrc' = {}
  /\ BtLive' \in mm_malloc(BtLive)
  /\ p4' = 0
  /\ cnt' = [cnt EXCEPT !.btAlloc = @ + 1, !.packB4 = 0, !.three4 = 0]
  /\ pc' = "four"
  /\ UNCHANGED << M, N, K, layA, layB, layC, Amem, Bmem, Cmem, Cinit, crashed,
                  calls, j5, f4, f3, i3, f2, j2, f1, i1, At, AtLive, AtW, Asrc,
                  kr, Cpre, stored, ub >>

\* fourloops, loop body: pack the next KC rows of B into Bt.  With a null Bt
\* the first store of packB_KCxNR kills the process inside the call.
FourPack ==
  /\ ~crashed
  /\ pc = "four" /\ fourloops_cond
  /\ LET pb == min(KC, f4.k - p4)
         w  == packB_KCxNC(pb, f4.n, beta(f4.B, p4, 0))
     IN IF BtLive = 0
        THEN /\ ub' = TRUE /\ crashed' = TRUE
             /\ UNCHANGED << Bt, BtW, Bsrc, cnt, pc >>
        ELSE /\ Bt' = ApplyWrites(Bt, w, Bmem, 1)
             /\ BtW' = WriteOffsets(w)
             /\ Bsrc' = SourceOffsets(w)
             /\ ub' = (ub \/ ~(SourceOffsets(w) \subseteq DOMAIN Bmem))
             /\ cnt' = [cnt EXCEPT !.packB = @ + 1, !.packB4 = @ + 1]
             /\ pc' = "four_packed"
             /\ UNCHANGED crashed
  /\ UNCHANGED << M, N, K, layA, layB, layC, Amem, Bmem, Cmem, Cinit,
                  calls, j5, f4, p4, f3, i3, f2, j2, f1, i1, At, BtLive,
                  AtLive, AtW, Asrc, kr, Cpre, stored >>

\* fourloops, loop body: call threeloops on the packed rows
FourCall ==
  /\ ~crashed
  /\ pc = "four_packed"
  /\ LET pb == min(KC, f4.k - p4)
     IN f3' = [m |-> f4.m, n |-> f4.n, k |-> pb,
               A |-> alpha(f4.A, 0, p4), B |-> 0, C |-> f4.C]
  /\ cnt' = [cnt EXCEPT !.three = @ + 1, !.three4 = @ + 1]
  /\ pc' = "three_entry"
  /\ UNCHANGED << M, N, K, layA, layB, layC, Amem, Bmem, Cmem, Cinit, crashed,
                  calls, j5, f4, p4, i3, f2, j2, f1, i1, Bt, At, BtLive,
                  AtLive, BtW, AtW, Bsrc, Asrc, kr, Cpre, stored, ub >>

\* fourloops, loop exit: _mm_free(Bt), return to fiveloops, j += NC
FourReturn ==
  /\ ~crashed
  /\ pc = "four" /\ ~fourloops_cond
  /\ Bt' = << >> /\ BtW' = {}
  /\ BtLive' = mm_free(BtLive)
  /\ cnt' = [cnt EXCEPT !.btFree = @ + 1]
  /\ j5' = j5 + NC
  /\ pc' = "five"
  /\ UNCHANGED << M, N, K, layA, layB, layC, Amem, Bmem, Cmem, Cinit, crashed,
                  calls, f4, p4, f3, i3, f2, j2, f1, i1, At, AtLive, AtW, Bsrc,
                  Asrc, kr, Cpre, stored, ub >>

\* threeloops, entry: At = _mm_malloc(MC*KC*sizeof(double), 64)
ThreeAlloc ==
  /\ ~crashed
  /\ pc = "three_entry"
  /\ At' = << >> /\ AtW' = {} /\ Asrc' = {}
  /\ AtLive' \in mm_malloc(AtLive)
  /\ i3' = 0
  /\ cnt' = [cnt EXCEPT !.atAlloc = @ + 1, !.packA3 = 0, !.two3 = 0]
  /\ pc' = "three"
  /\ UNCHANGED << M, N, K, layA, layB, layC, Amem, Bmem, Cmem, Cinit, crashed,
                  calls, j5, f4, p4, f3, f2, j2, f1, i1, Bt, BtLive, BtW, Bsrc,
                  kr, Cpre, stored, ub >>

\* threeloops, loop body: pack the next MC rows of A into At.  With a null
\* At the first store of packA_MRxKC kills the process inside the call.
ThreePack ==
  /\ ~crashed
  /\ pc = "three" /\ threeloops_cond
  /\ LET ib == min(MC, f3.m - i3)
         w  == packA_MCxKC(ib, f3.k, alpha(f3.A, i3, 0))
     IN IF AtLive = 0
        THEN /\ ub' = TRUE /\ crashed' = TRUE
             /\ UNCHANGED << At, AtW, Asrc, cnt, pc >>
        ELSE /\ At' = ApplyWrites(At, w, Amem, 1)
             /\ AtW' = WriteOffsets(w)
             /\ Asrc' = SourceOffsets(w)
             /\ ub' = (ub \/ ~(SourceOffsets(w) \subseteq DOMAIN Amem))
             /\ cnt' = [cnt EXCEPT !.packA = @ + 1, !.packA3 = @ + 1]
             /\ pc' = "three_packed"
             /\ UNCHANGED crashed
  /\ UNCHANGED << M, N, K, layA, layB, layC, Amem, Bmem, Cmem, Cinit,
                  calls, j5, f4, p4, f3, i3, f2, j2, f1, i1, Bt, BtLive,
                  AtLive, BtW, Bsrc, kr, Cpre, stored >>

\* threeloops, loop body: call twoloops on the packed rows
ThreeCall ==
  /\ ~crashed
  /\ pc = "three_packed"
  /\ LET ib == min(MC, f3.m - i3)
     IN f2' = [m |-> ib, n |-> f3.n, k |-> f3.k,
               A |-> 0, B |-> f3.B, C |-> gamma(f3.C, i3, 0)]
  /\ j2' = 0
  /\ cnt' = [cnt EXCEPT !.two = @ + 1, !.two3 = @ + 1]
  /\ pc' = "two"
  /\ UNCHANGED << M, N, K, layA, layB, layC, Amem, Bmem, Cmem, Cinit, crashed,
                  calls, j5, f4, p4, f3, i3, f1, i1, Bt, At, BtLive, AtLive,
                  BtW, AtW, Bsrc, Asrc, kr, Cpre, stored, ub >>

\* threeloops, loop exit: _mm_free(At), return to fourloops, p += KC
ThreeReturn ==
  /\ ~crashed
  /\ pc = "three" /\ ~threeloops_cond
  /\ At' = << >> /\ AtW' = {}
  /\ AtLive' = mm_free(AtLive)
  /\ cnt' = [cnt EXCEPT !.atFree = @ + 1]
  /\ p4' = p4 + KC
  /\ pc' = "four"
  /\ UNCHANGED << M, N, K, layA, layB, layC, Amem, Bmem, Cmem, Cinit, crashed,
                  calls, j5, f4, f3, i3, f2, j2, f1, i1, Bt, BtLive, BtW, Bsrc,
                  Asrc, kr, Cpre, stored, ub >>

\* twoloops, loop body: call oneloop on the next NR columns
TwoIter ==
  /\ ~crashed
  /\ pc = "two" /\ twoloops_cond
  /\ LET jb == min(NR, f2.n - j2)
     IN f1' = [m |-> f2.m, n |-> jb, k |-> f2.k,
               A |-> f2.A, B |-> f2.B + j2 * f2.k, C |-> gamma(f2.C, 0, j2)]
  /\ i1' = 0
  /\ pc' = "one"
  /\ UNCHANGED << M, N, K, layA, layB, layC, Amem, Bmem, Cmem, Cinit, crashed,
                  calls, j5, f4, p4, f3, i3, f2, j2, Bt, At, BtLive, AtLive,
                  BtW, AtW, Bsrc, Asrc, kr, Cpre, stored, cnt, ub >>

\* twoloops, loop exit: return to threeloops, i += MC
TwoReturn ==
  /\ ~crashed
  /\ pc = "two" /\ ~twoloops_cond
  /\ i3' = i3 + MC
  /\ pc' = "three"
  /\ UNCHANGED << M, N, K, layA, layB, layC, Amem, Bmem, Cmem, Cinit, crashed,
                  calls, j5, f4, p4, f3, f2, j2, f1, i1, Bt, At, BtLive,
                  AtLive, BtW, AtW, Bsrc, Asrc, kr, Cpre, stored, cnt, ub >>

\* oneloop, loop body: the microkernel on the next MR rows, i += MR
OneIter ==
  /\ ~crashed
  /\ pc = "one" /\ oneloop_cond
  /\ LET ib  == min(MR, f1.m - i1)
         mpA == f1.A + i1 * f1.k
         mpB == f1.B
         C   == gamma(f1.C, i1, 0)
         inC == ukernelC(C) \subseteq 0..(CAlloc - 1)
     IN /\ Cmem' = dgemm_ukernel_packed(f1.k, mpA, mpB, C)
        /\ kr' = [k |-> f1.k, mpA |-> mpA, mpB |-> mpB, C |-> C,
                  A |-> ukernelA(f1.k, mpA), B |-> ukernelB(f1.k, mpB)]
        /\ stored' = stored \cup ukernelC(C)
        /\ ub' = (ub \/ ~inC
                     \/ ~(ukernelA(f1.k, mpA) \subseteq DOMAIN At)
                     \/ ~(ukernelB(f1.k, mpB) \subseteq DOMAIN Bt))
        /\ Amem' = IF inC THEN Amem ELSE Clobber(Amem)
        /\ Bmem' = IF inC THEN Bmem ELSE Clobber(Bmem)
        /\ At' = IF inC THEN At ELSE Clobber(At)
        /\ Bt' = IF inC THEN Bt ELSE Clobber(Bt)
  /\ Cpre' = Cmem
  /\ i1' = i1 + MR
  /\ cnt' = [cnt EXCEPT !.ukernel = @ + 1]
  /\ UNCHANGED << M, N, K, layA, layB, layC, Cinit, crashed, pc,
                  calls, j5, f4, p4, f3, i3, f2, j2, f1, BtLive,
                  AtLive, BtW, AtW, Bsrc, Asrc >>

\* oneloop, loop exit: return to twoloops, j += NR
OneReturn ==
  /\ ~crashed
  /\ pc = "one" /\ ~oneloop_cond
  /\ j2' = j2 + NR
  /\ pc' = "two"
  /\ UNCHANGED << M, N, K, layA, layB, layC, Amem, Bmem, Cmem, Cinit, crashed,
                  calls, j5, f4, p4, f3, i3, f2, f1, i1, Bt, At, BtLive,
                  AtLive, BtW, AtW, Bsrc, Asrc, kr, Cpre, stored, cnt, ub >>

\* the caller calls fiveloops again with the same arguments
CallAgain ==
  /\ ~crashed
  /\ pc = "done" /\ calls < MaxCalls
  /\ calls' = calls + 1
  /\ j5' = 0
  /\ pc' = "five"
  /\ UNCHANGED << M, N, K, layA, layB, layC, Amem, Bmem, Cmem, Cinit, crashed, f4,
                  p4, f3, i3, f2, j2, f1, i1, Bt, At, BtLive, AtLive, BtW, AtW,
                  Bsrc, Asrc, kr, Cpre, stored, cnt, ub >>

\* after an access outside an allocation the process may be killed before
\* fiveloops returns
Crash ==
  /\ ~crashed
  /\ ub /\ pc # "done"
  /\ crashed' = TRUE
  /\ UNCHANGED << M, N, K, layA, layB, layC, Amem, Bmem, Cmem, Cinit, pc,
                  calls, j5, f4, p4, f3, i3, f2, j2, f1, i1, Bt, At, BtLive,
                  AtLive, BtW, AtW, Bsrc, Asrc, kr, Cpre, stored, cnt, ub >>

Next ==
  \/ FiveIter \/ FiveReturn
  \/ FourAlloc \/ FourPack \/ FourCall \/ FourReturn
  \/ ThreeAlloc \/ ThreePack \/ ThreeCall \/ ThreeReturn
  \/ TwoIter \/ TwoReturn
  \/ OneIter \/ OneReturn
  \/ CallAgain
  \/ Crash

Spec == Init /\ [][Next]_vars

(* ---------------- reference values ---------------- *)

\* the elements of the three matrices as the caller sees them
Aelt(i, p) == RdBuf(Amem, alpha(0, i, p))
Belt(p, j) == RdBuf(Bmem, beta(0, p, j))
ViewC == { gamma(0, i, j) : i \in 0..(M - 1), j \in 0..(N - 1) }

\* the textbook triple loop: sum over p in 0..K-1 of A(i,p)*B(p,j)
RECURSIVE DotFrom(_, _, _)
DotFrom(p, i, j) ==
  IF p < K THEN Aelt(i, p) * Belt(p, j) + DotFrom(p + 1, i, j) ELSE 0

Dot(i, j) == DotFrom(0, i, j)

Returned == pc = "done"

(* ---------------- C1 ---------------- *)

\* C1: when fiveloops returns from its first call, every element C(i,j) of
\* the M x N result equals its original value plus the sum over p of
\* A(i,p)*B(p,j), for every dimension and every stride layout.  Stated for
\* the runs in which no access left an allocation.
C1_MatchesTripleLoop ==
  (Returned /\ calls = 1 /\ ~ub) =>
     \A i \in 0..(M - 1), j \in 0..(N - 1) :
        RdBuf(Cmem, gamma(0, i, j)) = RdBuf(Cinit, gamma(0, i, j)) + Dot(i, j)

(* ---------------- C2 ---------------- *)

\* C2: after two calls of fiveloops with the same A and B on the same C,
\* every element of the result is 2*(A*B) + C_original.  Stated for the
\* runs in which no access left an allocation.
C2_TwoCallsAccumulate ==
  (Returned /\ calls = 2 /\ ~ub) =>
     \A i \in 0..(M - 1), j \in 0..(N - 1) :
        RdBuf(Cmem, gamma(0, i, j)) = RdBuf(Cinit, gamma(0, i, j)) + 2 * Dot(i, j)

(* ---------------- C3 ---------------- *)

\* the loop over a non-positive dimension runs zero iterations: the N loop
\* of fiveloops never calls fourloops, the K loop of fourloops never packs B
\* nor calls threeloops, the M loop of threeloops never packs A nor calls
\* twoloops
C3_ZeroIterations ==
  /\ N <= 0 => (cnt.four = 0 /\ pc \in {"five", "done"})
  /\ K <= 0 => (cnt.packB = 0 /\ cnt.three = 0
                 /\ pc \in {"five", "four_entry", "four", "done"})
  /\ M <= 0 => (cnt.packA = 0 /\ cnt.two = 0
                 /\ pc \in {"five", "four_entry", "four", "four_packed",
                            "three_entry", "three", "done"})

\* C3: if any of M, N, K is non-positive the loop over that dimension runs
\* zero iterations, the microkernel is never invoked, nothing is stored to C,
\* C keeps its contents, and the call returns normally: no access is
\* undefined and the process is not killed.
C3_NonPositiveDimension ==
  (M <= 0 \/ N <= 0 \/ K <= 0) =>
     /\ C3_ZeroIterations
     /\ cnt.ukernel = 0
     /\ stored = {}
     /\ Cmem = Cinit
     /\ ~ub /\ ~crashed

(* ---------------- C4 ---------------- *)

\* the rank-k update the microkernel owes to element (i,j) of its tile
RECURSIVE PanelDot(_, _, _, _)
PanelDot(p, k, i, j) ==
  IF p < k
  THEN RdBuf(At, kr.mpA + p * MR + i) * RdBuf(Bt, kr.mpB + p * NR + j)
         + PanelDot(p + 1, k, i, j)
  ELSE 0

AfterUkernel == pc = "one" /\ i1 > 0

\* the MR x NR stride-addressed positions of the tile are pairwise distinct
\* and inside the buffer of C
TilePositions == { gamma(kr.C, i, j) : i \in 0..(MR - 1), j \in 0..(NR - 1) }
TileInC ==
  /\ Cardinality(TilePositions) = MR * NR
  /\ TilePositions \subseteq 0..(CAlloc - 1)

\* C4: after a microkernel call, for every i in 0..MR-1 and j in 0..NR-1 the
\* element of C at C + i*rsC + j*csC holds its value at entry plus the sum
\* over p of mpA[p*MR + i] * mpB[p*NR + j], for any strides rsC, csC.
\* Stated for the calls whose tile positions do not alias and lie in the
\* buffer of C, in the runs in which no access left an allocation.
C4_UkernelContract ==
  (AfterUkernel /\ TileInC /\ ~ub) =>
     \A i \in 0..(MR - 1), j \in 0..(NR - 1) :
        RdBuf(Cmem, gamma(kr.C, i, j))
          = RdBuf(Cpre, gamma(kr.C, i, j)) + PanelDot(0, kr.k, i, j)

(* ---------------- C5 ---------------- *)

\* the arguments of the packA_MCxKC call that has just returned
PackedA == pc = "three_packed"
packA_m == min(MC, f3.m - i3)
packA_k == f3.k
packA_A == alpha(f3.A, i3, 0)

\* C5: after packA_MCxKC(m, k, A, At), At[q*MR*k + p*MR + i] is A(q*MR+i, p)
\* when q*MR+i < m and exactly 0.0 when q*MR+i >= m, and no source element
\* with row index >= m is read.  Stated for the runs in which no access left
\* an allocation.
C5_PackAZeroPadded ==
  (PackedA /\ ~ub) =>
     /\ \A q \in 0..(CeilDiv(packA_m, MR) - 1), p \in 0..(packA_k - 1),
           i \in 0..(MR - 1) :
           RdBuf(At, q * MR * packA_k + p * MR + i)
             = IF q * MR + i < packA_m
               THEN RdBuf(Amem, alpha(packA_A, q * MR + i, p))
               ELSE 0
     /\ Asrc \subseteq { alpha(packA_A, r, p) :
                           r \in 0..(packA_m - 1), p \in 0..(packA_k - 1) }

(* ---------------- C6 ---------------- *)

\* the arguments of the packB_KCxNC call that has just returned
PackedB == pc = "four_packed"
packB_k == min(KC, f4.k - p4)
packB_n == f4.n
packB_B == beta(f4.B, p4, 0)

\* C6: after packB_KCxNC(k, n, B, Bt), Bt[q*NR*k + p*NR + j] is B(p, q*NR+j)
\* when q*NR+j < n and exactly 0.0 when q*NR+j >= n, every such element has
\* been written, and the source elements read are those with column < n.
C6_PackBZeroPadded ==
  PackedB =>
     /\ \A q \in 0..(CeilDiv(packB_n, NR) - 1), p \in 0..(packB_k - 1),
           j \in 0..(NR - 1) :
           /\ q * NR * packB_k + p * NR + j \in DOMAIN Bt
           /\ Bt[q * NR * packB_k + p * NR + j]
                = IF q * NR + j < packB_n
                  THEN RdBuf(Bmem, beta(packB_B, p, q * NR + j))
                  ELSE 0
     /\ Bsrc = { beta(packB_B, p, c) :
                   p \in 0..(packB_k - 1), c \in 0..(packB_n - 1) }
     /\ Bsrc \subseteq DOMAIN Bmem

\* a packing of KC rows whose last panel is a remainder after a full panel
C6_Witness ==
  /\ PackedB /\ packB_k = KC /\ packB_n > NR /\ packB_n % NR # 0
  /\ \E a \in BtW : Bt[a] = 0
  /\ \E a \in BtW : Bt[a] # 0

(* ---------------- C8 ---------------- *)

\* C8: the only locations of C stored to are the elements C(i,j) with
\* 0 <= i < M and 0 <= j < N.  Stated for the runs in which no access left
\* an allocation.
C8_StoresInsideView ==
  ~ub => stored \subseteq ViewC

(* ---------------- C7 ---------------- *)

InFour == pc \in {"four", "four_packed", "three_entry", "three",
                  "three_packed", "two", "one"}
InThree == pc \in {"three", "three_packed", "two", "one"}

C7_Lifetime ==
  /\ BtLive = (IF InFour THEN 1 ELSE 0)
  /\ AtLive = (IF InThree THEN 1 ELSE 0)
  /\ cnt.btAlloc = (IF pc = "four_entry" THEN cnt.four - 1 ELSE cnt.four)
  /\ cnt.atAlloc = (IF pc = "three_entry" THEN cnt.three - 1 ELSE cnt.three)
  /\ cnt.btFree = cnt.btAlloc - BtLive
  /\ cnt.atFree = cnt.atAlloc - AtLive

C7_UseWhileLive ==
  /\ cnt'.packB # cnt.packB => (BtLive = 1 /\ BtLive' = 1)
  /\ cnt'.packA # cnt.packA => (AtLive = 1 /\ AtLive' = 1)
  /\ cnt'.ukernel # cnt.ukernel =>
        (BtLive = 1 /\ BtLive' = 1 /\ AtLive = 1 /\ AtLive' = 1)

\* C7: every invocation of fourloops allocates exactly one Bt and every
\* invocation of threeloops exactly one At; each is freed exactly once before
\* its owning stage returns; packing writes and microkernel reads happen
\* while the buffer is allocated; at most one Bt and one At are live, and
\* none is live when fiveloops returns.
C7_ScopedBuffers == [](C7_Lifetime) /\ [][C7_UseWhileLive]_vars

(* ---------------- C9 ---------------- *)

C9_Counts ==
  /\ pc = "four" =>
        /\ cnt.packB4 = CeilDiv(min(p4, f4.k), KC)
        /\ cnt.three4 = cnt.packB4
  /\ pc = "four_packed" => cnt.packB4 = cnt.three4 + 1
  /\ pc \in {"three_entry", "three", "three_packed", "two", "one"} =>
        /\ cnt.packB4 = (p4 \div KC) + 1
        /\ cnt.three4 = cnt.packB4
  /\ pc = "three" =>
        /\ cnt.packA3 = CeilDiv(min(i3, f3.m), MC)
        /\ cnt.two3 = cnt.packA3
  /\ pc = "three_packed" => cnt.packA3 = cnt.two3 + 1
  /\ pc \in {"two", "one"} =>
        /\ cnt.packA3 = (i3 \div MC) + 1
        /\ cnt.two3 = cnt.packA3
  /\ (Returned /\ M > 0 /\ N > 0 /\ K > 0) =>
        /\ cnt.packB = calls * CeilDiv(N, NC) * CeilDiv(K, KC)
        /\ cnt.packA = calls * CeilDiv(N, NC) * CeilDiv(K, KC) * CeilDiv(M, MC)

C9_Order ==
  /\ cnt'.packB # cnt.packB => (pc = "four" /\ pc' = "four_packed")
  /\ cnt'.packA # cnt.packA => (pc = "three" /\ pc' = "three_packed")
  /\ cnt'.three # cnt.three => cnt.packB4 = cnt'.three4
  /\ cnt'.two # cnt.two => cnt.packA3 = cnt'.two3
  /\ cnt'.ukernel # cnt.ukernel =>
        (kr'.A \subseteq AtW /\ kr'.B \subseteq BtW /\ AtW' = AtW /\ BtW' = BtW)

\* C9: within one invocation of fourloops, packB_KCxNC is called exactly once
\* per K-chunk, before the threeloops call of that chunk and only from level
\* 4; within one invocation of threeloops, packA_MCxKC is called exactly once
\* per M-chunk, before the twoloops call of that chunk and only from level 3;
\* for positive M, N, K a call performs ceil(N/NC)*ceil(K/KC) packings of B
\* and ceil(N/NC)*ceil(K/KC)*ceil(M/MC) packings of A, and every microkernel
\* call reads panels written by the most recent packing of each buffer.
C9_PackOncePerChunk == [](C9_Counts) /\ [][C9_Order]_vars

\* a returned call with more than one chunk in each of N, K and M
C9_Witness ==
  /\ Returned /\ calls = 1
  /\ CeilDiv(N, NC) > 1 /\ CeilDiv(K, KC) > 1 /\ CeilDiv(M, MC) > 1
  /\ cnt.packA > cnt.packB /\ cnt.packB > 1

(* ---------------- C10 ---------------- *)

\* C10: every offset written by packB_KCxNC, zero padding included, is in
\* 0..KC*NC-1 and the call fills exactly ceil(n/NR) panels of k*NR doubles;
\* every offset written by packA_MCxKC is in 0..MC*KC-1; every offset of At
\* and Bt read by the microkernel is inside the capacity and inside the
\* region written by the latest packing call.
C10_PackedBuffersInBounds ==
  /\ BtW \subseteq 0..(BtCap - 1)
  /\ AtW \subseteq 0..(AtCap - 1)
  /\ PackedB => BtW = 0..(CeilDiv(packB_n, NR) * NR * packB_k - 1)
  /\ PackedA => AtW = 0..(CeilDiv(packA_m, MR) * MR * packA_k - 1)
  /\ AfterUkernel =>
        /\ kr.A \subseteq AtW /\ kr.A \subseteq 0..(AtCap - 1)
        /\ kr.B \subseteq BtW /\ kr.B \subseteq 0..(BtCap - 1)

\* the microkernel has read the last, remainder panels of a full Bt and of At
C10_Witness ==
  /\ AfterUkernel /\ kr.k = KC
  /\ f2.n % NR # 0 /\ f2.m % MR # 0
  /\ kr.mpA > 0 /\ kr.mpB > 0
  /\ (BtCap - 1) \in kr.B
  /\ \E a \in kr.B : Bt[a] = 0

====
